---- MODULE Spec2Model ----
(***************************************************************************)
(* Model of reconcile.py, the Knot configuration reconciler.               *)
(*                                                                         *)
(* A configuration document (the text of knot.conf) is a sequence of       *)
(* tokens.  A token is a string; the tokenisation keeps apart exactly the  *)
(* pieces of text the regular expressions and substring tests of the       *)
(* program distinguish:                                                    *)
(*   - "\n", the line terminator;                                          *)
(*   - a maximal run of blanks (" ", "  ", ...);                           *)
(*   - a key, i.e. a word followed by a colon ("remote:", "id:", ...),     *)
(*     which is what the pattern \w+: matches;                             *)
(*   - the punctuation "[", "]", "," and the list item marker "-";         *)
(*   - any other maximal run of non-blank text (an id, an address, ...).   *)
(* The text "remote:" (resp. "master:") occurs in a document only as the   *)
(* token "remote:" (resp. "master:"), and a key token is never directly    *)
(* preceded by a token that ends in a word character other than a token    *)
(* of WordTokens.                                                          *)
(*                                                                         *)
(* The string literals of generate_new_config are read with their escapes  *)
(* ("\n" ends each line of a block, "\1" is the back-reference to group 1, *)
(* and the list pattern is the list name and its colon, blanks, an opening *)
(* bracket and everything up to the closing bracket, as group 1).          *)
(***************************************************************************)
EXTENDS FiniteSets, Integers, Sequences, TLC

(***************************************************************************)
(* Tokens                                                                  *)
(***************************************************************************)
NL == "\n"

Blanks == {" ", "  ", "   ", "    ", "     ", "      ", "       ", "        "}

\* characters matched by \s
IsSpace(t) == t \in Blanks \cup {NL}

\* texts matched as a whole by \w+:
KeyTokens == {"remote:", "master:", "id:", "address:", "key:", "quic:",
              "server:", "listen:", "acl:", "action:", "template:"}

\* texts made of word characters only
WordTokens == {"x", "on", "transfer", "secondary", "CHANGE", "THIS", "to",
               "the", "FQDN"}

(***************************************************************************)
(* Sequence helpers                                                        *)
(***************************************************************************)
RECURSIVE Concat(_)
Concat(ss) == IF ss = <<>> THEN <<>> ELSE Head(ss) \o Concat(Tail(ss))

Contains(s, t) == \E i \in 1..Len(s) : s[i] = t

Count(s, t) == Cardinality({i \in 1..Len(s) : s[i] = t})

\* f.readlines(): the lines of the text, each with its terminator
RECURSIVE readlines(_)
readlines(text) ==
    IF text = <<>> THEN <<>>
    ELSE IF \E i \in 1..Len(text) : text[i] = NL
         THEN LET e == CHOOSE i \in 1..Len(text) :
                           /\ text[i] = NL
                           /\ \A j \in 1..(i-1) : text[j] # NL
              IN  <<SubSeq(text, 1, e)>> \o readlines(SubSeq(text, e+1, Len(text)))
         ELSE <<text>>

(***************************************************************************)
(* get_current_remotes_from_config: the two regular expressions            *)
(***************************************************************************)
\* \w+: matches at position j of text
RECURSIVE WordColonAt(_, _)
WordColonAt(text, j) ==
    /\ j <= Len(text)
    /\ \/ text[j] \in KeyTokens
       \/ text[j] \in WordTokens /\ WordColonAt(text, j+1)

\* $ (without re.MULTILINE) matches at position j: at the end of the text
\* or just before a final line terminator
DollarAt(text, j) ==
    \/ j = Len(text) + 1
    \/ j = Len(text) /\ text[j] = NL

\* re.search(r'remote:(.*?)(\w+:|$)', content, re.DOTALL):
\* position of the leftmost "remote:", 0 when there is no match
RemoteSectionStart(content) ==
    IF Contains(content, "remote:")
    THEN CHOOSE i \in 1..Len(content) :
             /\ content[i] = "remote:"
             /\ \A j \in 1..(i-1) : content[j] # "remote:"
    ELSE 0

\* group(1): the shortest text after "remote:" that is followed by \w+: or $
RemoteSectionGroup1(content) ==
    LET i == RemoteSectionStart(content)
        e == CHOOSE j \in (i+1)..(Len(content)+1) :
                 /\ WordColonAt(content, j) \/ DollarAt(content, j)
                 /\ \A k \in (i+1)..(j-1) :
                        ~(WordColonAt(content, k) \/ DollarAt(content, k))
    IN  SubSeq(content, i+1, e-1)

\* (\S+) at position p: the maximal run of non-blank tokens, as one string
RECURSIVE NonSpaceRun(_, _)
NonSpaceRun(text, p) ==
    IF p > Len(text) \/ IsSpace(text[p]) THEN ""
    ELSE text[p] \o NonSpaceRun(text, p+1)

\* re.findall(r'-    id:  (\S+)', remote_section)
FindIds(section) ==
    { NonSpaceRun(section, p+4) :
        p \in { q \in 1..Len(section) :
                  /\ q + 4 <= Len(section)
                  /\ section[q] = "-"
                  /\ section[q+1] = "    "
                  /\ section[q+2] = "id:"
                  /\ section[q+3] = "  "
                  /\ ~IsSpace(section[q+4]) } }

\* the value returned for a file that exists
get_current_remotes_from_config(content) ==
    IF RemoteSectionStart(content) # 0
    THEN FindIds(RemoteSectionGroup1(content))
    ELSE {}

(***************************************************************************)
(* generate_new_config                                                     *)
(* new_remotes is a dict: a sequence of <<id, fqdn>> pairs with distinct   *)
(* ids, in insertion order.                                                *)
(***************************************************************************)
keys(d) == [i \in 1..Len(d) |-> d[i][1]]

KeySet(d) == {d[i][1] : i \in 1..Len(d)}

new_block(remote_id, fqdn) ==
    << <<"      ", "-", " ", "id:", " ", remote_id, NL>>,
       <<"        ", "address:", " ", fqdn \o "@853", " ", "#", " ", "!!!",
         " ", "CHANGE", " ", "THIS", " ", "to", " ", "the", " ", "site's",
         " ", "FQDN", " ", "!!!", NL>>,
       <<"        ", "key:", " ", "xfr-key", NL>>,
       <<"        ", "quic:", " ", "on", NL>> >>

\* index of the first line that has "remote:" in it, 0 when there is none
FirstRemoteLine(lines) ==
    IF \E i \in 1..Len(lines) : Contains(lines[i], "remote:")
    THEN CHOOSE i \in 1..Len(lines) :
             /\ Contains(lines[i], "remote:")
             /\ \A j \in 1..(i-1) : ~Contains(lines[j], "remote:")
    ELSE 0

\* the loop over new_remotes.items(): new_config_lines[i+1:i+1] = new_block
RECURSIVE InsertBlocks(_, _, _)
InsertBlocks(new_config_lines, i, new_remotes) ==
    IF new_remotes = <<>> THEN new_config_lines
    ELSE LET r == Head(new_remotes)
             ins == SubSeq(new_config_lines, 1, i) \o new_block(r[1], r[2])
                      \o SubSeq(new_config_lines, i+1, Len(new_config_lines))
         IN  InsertBlocks(ins, i, Tail(new_remotes))

\* ", ".join(new_remotes.keys())
RECURSIVE JoinIds(_)
JoinIds(ids) ==
    IF ids = <<>> THEN <<>>
    ELSE IF Len(ids) = 1 THEN <<ids[1]>>
    ELSE <<ids[1], ",", " ">> \o JoinIds(Tail(ids))

\* \s* from position p: the position of the first token that is not blank
SkipSpace(text, p) ==
    IF \E q \in p..Len(text) : ~IsSpace(text[q])
    THEN CHOOSE q \in p..Len(text) :
             /\ ~IsSpace(text[q])
             /\ \A k \in p..(q-1) : IsSpace(text[k])
    ELSE Len(text) + 1

\* [^\]]* from position p: the position of the first closing bracket
SkipToBracket(text, p) ==
    IF \E q \in p..Len(text) : text[q] = "]"
    THEN CHOOSE q \in p..Len(text) :
             /\ text[q] = "]"
             /\ \A k \in p..(q-1) : text[k] # "]"
    ELSE Len(text) + 1

\* the list pattern of append_to_list matches at position p: the position
\* after the match, 0 when there is no match at p
ListMatchEnd(list_key, text, p) ==
    IF text[p] # list_key THEN 0
    ELSE LET b == SkipSpace(text, p+1)
         IN  IF b <= Len(text) /\ text[b] = "["
             THEN SkipToBracket(text, b+1)
             ELSE 0

\* pattern.sub(f"\1, {new_remote_ids_str}", content), scanning from p:
\* every match, left to right and without overlap, is replaced by its
\* group 1 followed by ", " and the joined ids
RECURSIVE SubFrom(_, _, _, _)
SubFrom(list_key, ids, content, p) ==
    IF \E q \in p..Len(content) : ListMatchEnd(list_key, content, q) # 0
    THEN LET m == CHOOSE q \in p..Len(content) :
                      /\ ListMatchEnd(list_key, content, q) # 0
                      /\ \A k \in p..(q-1) : ListMatchEnd(list_key, content, k) = 0
             e == ListMatchEnd(list_key, content, m)
         IN  SubSeq(content, p, e-1) \o <<",", " ">> \o JoinIds(ids)
               \o SubFrom(list_key, ids, content, e)
    ELSE SubSeq(content, p, Len(content))

append_to_list(list_name, ids, content) ==
    SubFrom(list_name \o ":", ids, content, 1)

generate_new_config(base, new_remotes) ==
    LET lines == readlines(base)
        i == FirstRemoteLine(lines)
        new_config_lines == IF i = 0 THEN lines
                            ELSE InsertBlocks(lines, i, new_remotes)
        new_config_str == Concat(new_config_lines)
        with_remote == append_to_list("remote", keys(new_remotes), new_config_str)
    IN  append_to_list("master", keys(new_remotes), with_remote)

(***************************************************************************)
(* get_desired_remotes_from_catalog                                        *)
(* A zone is the sequence of its nodes, in the order of zone.nodes; a node *)
(* has a name and a sequence of rdatasets; an rdataset has a type and a    *)
(* sequence of items; the text of a PTR item (a member zone name) is the   *)
(* sequence of its labels.                                                 *)
(***************************************************************************)
\* variant: a list of pairs instead of a dict, every assignment appends
DictSetAppends(d, k, v) == Append(d, <<k, v>>)

\* desired_remotes[remote_id] = fqdn
DictSet(d, k, v) ==
    IF \E i \in 1..Len(d) : d[i][1] = k
    THEN [i \in 1..Len(d) |-> IF d[i][1] = k THEN <<k, v>> ELSE d[i]]
    ELSE Append(d, <<k, v>>)

\* zone_name.split('.')[0]
base_name(zone_name) == zone_name[1]

remote_id_of(base) == base \o "-remote"

fqdn_of(base) == "site-" \o base \o ".dns.internal"

RECURSIVE AddItems(_, _)
AddItems(d, items) ==
    IF items = <<>> THEN d
    ELSE LET b == base_name(Head(items))
         IN  AddItems(DictSet(d, remote_id_of(b), fqdn_of(b)), Tail(items))

RECURSIVE AddRdatasets(_, _)
AddRdatasets(d, rdatasets) ==
    IF rdatasets = <<>> THEN d
    ELSE LET rds == Head(rdatasets)
             d1 == IF rds.rdtype = "PTR" THEN AddItems(d, rds.items) ELSE d
         IN  AddRdatasets(d1, Tail(rdatasets))

RECURSIVE AddNodes(_, _)
AddNodes(d, nodes) ==
    IF nodes = <<>> THEN d
    ELSE LET node == Head(nodes)
             skip == node.name = "version" \/ node.name = "@"
                       \/ node.rdatasets = <<>>
             d1 == IF skip THEN d ELSE AddRdatasets(d, node.rdatasets)
         IN  AddNodes(d1, Tail(nodes))

get_desired_remotes_from_catalog(zone) == AddNodes(<<>>, zone)

(***************************************************************************)
(* Input documents                                                         *)
(***************************************************************************)
Bases == {"a", "b", "c"}

Ids == {remote_id_of(b) : b \in Bases}

\* "  -    id:  <id>" with its nested address key
RemoteEntry(rid) ==
    <<"  ", "-", "    ", "id:", "  ", rid, NL,
      "       ", "address:", " ", "peer@853", NL>>

RECURSIVE RemoteEntries(_)
RemoteEntries(ids) ==
    IF ids = <<>> THEN <<>> ELSE RemoteEntry(Head(ids)) \o RemoteEntries(Tail(ids))

ServerSection ==
    <<"server:", NL, "    ", "listen:", " ", "0.0.0.0@53", NL>>

RemoteSection(ids) == <<"remote:", NL>> \o RemoteEntries(ids)

AclSection(ids) ==
    <<"acl:", NL,
      "  ", "-", " ", "id:", " ", "transfer-acl", NL,
      "    ", "remote:", " ", "[">> \o JoinIds(ids) \o <<"]", NL,
      "    ", "action:", " ", "transfer", NL>>

TemplateSection(ids) ==
    <<"template:", NL,
      "  ", "-", " ", "id:", " ", "secondary", NL,
      "    ", "master:", " ", "[">> \o JoinIds(ids) \o <<"]", NL>>

\* a knot.conf: optional server section, the remote section (when anchor)
\* with one entry per id of ids, and the acl and template sections with
\* their lists (when lists), before or after the remote section
MkDoc(server, anchor, ids, lists, aclFirst) ==
    (IF server THEN ServerSection ELSE <<>>)
    \o (IF lists /\ aclFirst THEN AclSection(ids) ELSE <<>>)
    \o (IF anchor THEN RemoteSection(ids) ELSE <<>>)
    \o (IF lists /\ ~aclFirst THEN AclSection(ids) ELSE <<>>)
    \o (IF lists THEN TemplateSection(ids) ELSE <<>>)

\* sequences without repetition over S, of length at most n
RECURSIVE SeqsUpTo(_, _)
SeqsUpTo(S, n) ==
    IF n = 0 THEN {<<>>}
    ELSE LET shorter == SeqsUpTo(S, n-1)
         IN  shorter \cup { Append(s, e) : s \in shorter, e \in S }

DistinctSeqs(S, n) ==
    { s \in SeqsUpTo(S, n) : \A i, j \in 1..Len(s) : i # j => s[i] # s[j] }

(***************************************************************************)
(* Catalogs the zone transfer can return                                   *)
(***************************************************************************)
Apex == [name |-> "@",
         rdatasets |-> <<[rdtype |-> "SOA", items |-> <<>>],
                         [rdtype |-> "NS", items |-> <<>>]>>]

Version == [name |-> "version",
            rdatasets |-> <<[rdtype |-> "TXT", items |-> <<>>]>>]

\* a member node: a PTR rdataset with one member zone name per base
RECURSIVE MemberZones(_)
MemberZones(bs) ==
    IF bs = <<>> THEN <<>>
    ELSE <<<<Head(bs), "internal", "dns", "">>>> \o MemberZones(Tail(bs))

Member(label, bs) ==
    [name |-> label \o ".zones",
     rdatasets |-> <<[rdtype |-> "TXT", items |-> <<>>],
                     [rdtype |-> "PTR", items |-> MemberZones(bs)]>>]

Zone(bs) ==
    <<Apex, Version>> \o [i \in 1..Len(bs) |-> Member(bs[i], <<bs[i]>>)]

\* catalogs with at most MaxMembers member zones, plus one with a PTR on a
\* reserved node, an empty node, and two member zones of the same base
MaxMembers == 2

CatalogBases == {"a", "b"}

Zones ==
    { Zone(bs) : bs \in DistinctSeqs(CatalogBases, MaxMembers) }
    \cup { <<Apex,
             [name |-> "version",
              rdatasets |-> <<[rdtype |-> "PTR", items |-> MemberZones(<<"c">>)]>>],
             [name |-> "empty.zones", rdatasets |-> <<>>],
             Member("m1", <<"b", "b">>),
             [name |-> "m2.zones",
              rdatasets |-> <<[rdtype |-> "PTR",
                               items |-> <<<<"b", "other", "dns", "">>>>]>>]>> }

(***************************************************************************)
(* State                                                                   *)
(***************************************************************************)
MaxRuns == 2

\* values of the local variables of main()
Unset   == [st |-> "unset"]
None    == [st |-> "none"]
Val(v)  == [st |-> "val", v |-> v]
IsVal(w) == w.st = "val"

VARIABLES
    knotConf,            \* data["knot.conf"] of the ConfigMap, mounted at KNOT_CONFIG_PATH
    fileExists,          \* os.path.exists(KNOT_CONFIG_PATH)
    pc,                  \* position of the current run in main()
    xfr,                 \* result of the zone transfer of the current run
    desired_remotes,     \* locals of main()
    current_remotes,
    missing_remotes_ids,
    remotes_to_add,
    new_knot_conf,
    cm,                  \* the ConfigMap body built at lines 153-154
    calls,               \* cluster API calls of the current run, in order
    outcome,             \* how the current run ended
    docAtStart,          \* knotConf when the current run started
    log,                 \* one record per finished run
    fnPc, fnDoc, fnRemotes, fnCur, fnOut,  \* direct calls of the two functions
    fnCurrent, fnAdd,    \* direct evaluation of the difference of lines 138-145
    fnZone, fnDesired    \* direct evaluation of the Catalog Reader

mainVars == <<knotConf, fileExists, pc, xfr, desired_remotes, current_remotes,
              missing_remotes_ids, remotes_to_add, new_knot_conf, cm, calls,
              outcome, docAtStart, log>>

fnVars == <<fnPc, fnDoc, fnRemotes, fnCur, fnOut, fnCurrent, fnAdd, fnZone,
           fnDesired>>

vars == <<knotConf, fileExists, pc, xfr, desired_remotes, current_remotes,
          missing_remotes_ids, remotes_to_add, new_knot_conf, cm, calls,
          outcome, docAtStart, log, fnPc, fnDoc, fnRemotes, fnCur, fnOut,
          fnCurrent, fnAdd, fnZone, fnDesired>>

\* knot.conf documents a run can start from
InitDocs ==
    { MkDoc(TRUE, TRUE, <<>>, TRUE, FALSE),
      MkDoc(TRUE, TRUE, <<remote_id_of("a")>>, TRUE, FALSE),
      MkDoc(FALSE, TRUE, <<remote_id_of("c")>>, TRUE, TRUE),
      MkDoc(TRUE, FALSE, <<>>, TRUE, FALSE),
      MkDoc(FALSE, TRUE, <<remote_id_of("a"), remote_id_of("b")>>, FALSE, FALSE) }

Call(op, ok) == [op |-> op, ok |-> ok]

Called(op) == \E i \in 1..Len(calls) : calls[i].op = op

NumCalls(cs, op) == Cardinality({i \in 1..Len(cs) : cs[i].op = op})

Init ==
    /\ knotConf \in InitDocs
    /\ fileExists \in BOOLEAN
    /\ pc = "start"
    /\ xfr = "pending"
    /\ desired_remotes = Unset
    /\ current_remotes = Unset
    /\ missing_remotes_ids = Unset
    /\ remotes_to_add = Unset
    /\ new_knot_conf = Unset
    /\ cm = Unset
    /\ calls = <<>>
    /\ outcome = "running"
    /\ docAtStart = knotConf
    /\ log = <<>>
    /\ fnPc = "off" /\ fnDoc = <<>> /\ fnRemotes = <<>> /\ fnCur = {} /\ fnOut = <<>>
    /\ fnCurrent = {} /\ fnAdd = <<>> /\ fnZone = <<>> /\ fnDesired = <<>>

\* the run ends (return, exit(0) or the end of main): its record is logged
EndRun(how, cs, missing) ==
    /\ pc' = "done"
    /\ outcome' = how
    /\ log' = Append(log, [outcome |-> how,
                           desired |-> desired_remotes,
                           missing |-> missing,
                           calls |-> cs])

(***************************************************************************)
(* main(), one action per step                                             *)
(***************************************************************************)
\* lines 121-125
LoadKubeConfig ==
    /\ pc = "start"
    /\ pc' = "config_loaded"
    /\ UNCHANGED <<knotConf, fileExists, xfr, desired_remotes, current_remotes,
                   missing_remotes_ids, remotes_to_add, new_knot_conf, cm,
                   calls, outcome, docAtStart, log>>
    /\ UNCHANGED fnVars

\* lines 126-129
LoadKubeConfigFails ==
    /\ pc = "start"
    /\ EndRun("no_kube_config", calls, missing_remotes_ids)
    /\ UNCHANGED <<knotConf, fileExists, xfr, desired_remotes, current_remotes,
                   missing_remotes_ids, remotes_to_add, new_knot_conf, cm,
                   calls, docAtStart>>
    /\ UNCHANGED fnVars

\* line 131, the transfer succeeds
GetDesired ==
    /\ pc = "config_loaded"
    /\ \E zone \in Zones :
          desired_remotes' = Val(get_desired_remotes_from_catalog(zone))
    /\ xfr' = "ok"
    /\ pc' = "have_desired"
    /\ UNCHANGED <<knotConf, fileExists, current_remotes,
                   missing_remotes_ids, remotes_to_add, new_knot_conf, cm,
                   calls, outcome, docAtStart, log>>
    /\ UNCHANGED fnVars

\* variant: the handler returns None instead of calling exit(0)
GetDesiredFailsReturnsNone ==
    /\ pc = "config_loaded"
    /\ xfr' = "failed"
    /\ desired_remotes' = None
    /\ pc' = "have_desired"
    /\ UNCHANGED <<knotConf, fileExists, current_remotes,
                   missing_remotes_ids, remotes_to_add, new_knot_conf, cm,
                   calls, outcome, docAtStart, log>>
    /\ UNCHANGED fnVars

\* line 131, an exception in the try block: lines 44-47, exit(0)
GetDesiredFails ==
    /\ pc = "config_loaded"
    /\ xfr' = "failed"
    /\ EndRun("exit_0", calls, missing_remotes_ids)
    /\ UNCHANGED <<knotConf, fileExists, desired_remotes, current_remotes,
                   missing_remotes_ids, remotes_to_add, new_knot_conf, cm,
                   calls, docAtStart>>
    /\ UNCHANGED fnVars

\* variant: a missing file is read as a document without remotes
CurrentRemotesNoFileCheck(exists, content) ==
    Val(IF exists THEN get_current_remotes_from_config(content) ELSE {})

\* lines 55-71: None when the file does not exist
CurrentRemotes(exists, content) ==
    IF exists THEN Val(get_current_remotes_from_config(content)) ELSE None

\* line 132
GetCurrent ==
    /\ pc = "have_desired"
    /\ current_remotes' = CurrentRemotes(fileExists, knotConf)
    /\ pc' = "have_current"
    /\ UNCHANGED <<knotConf, fileExists, xfr, desired_remotes,
                   missing_remotes_ids, remotes_to_add, new_knot_conf, cm,
                   calls, outcome, docAtStart, log>>
    /\ UNCHANGED fnVars

\* variant: the comprehension of line 145 without its condition
RestrictKeepsAll(d, ks) == d

\* {k: v for k, v in desired_remotes.items() if k in missing_remotes_ids}
RECURSIVE Restrict(_, _)
Restrict(d, ks) ==
    IF d = <<>> THEN <<>>
    ELSE IF Head(d)[1] \in ks THEN <<Head(d)>> \o Restrict(Tail(d), ks)
    ELSE Restrict(Tail(d), ks)

\* line 138: set(desired_remotes.keys()) - current_remotes
MissingIds(desired, current) == KeySet(desired) \ current

\* variant: the early return of line 141 is never taken
UpToDateNever(missing) == FALSE

\* line 139: not missing_remotes_ids
UpToDate(missing) == missing = {}

\* lines 134-145
Diff ==
    /\ pc = "have_current"
    /\ IF ~IsVal(desired_remotes) \/ ~IsVal(current_remotes)
       THEN /\ missing_remotes_ids' = missing_remotes_ids
            /\ remotes_to_add' = remotes_to_add
            /\ EndRun("no_state", calls, missing_remotes_ids)
       ELSE LET missing == MissingIds(desired_remotes.v, current_remotes.v)
            IN  /\ missing_remotes_ids' = Val(missing)
                /\ IF UpToDate(missing)
                   THEN /\ remotes_to_add' = remotes_to_add
                        /\ EndRun("up_to_date", calls, Val(missing))
                   ELSE /\ remotes_to_add' = Val(Restrict(desired_remotes.v, missing))
                        /\ pc' = "stale"
                        /\ UNCHANGED <<outcome, log>>
    /\ UNCHANGED <<knotConf, fileExists, xfr, desired_remotes, current_remotes,
                   new_knot_conf, cm, calls, docAtStart>>
    /\ UNCHANGED fnVars

\* line 148
Generate ==
    /\ pc = "stale"
    /\ new_knot_conf' = Val(generate_new_config(knotConf, remotes_to_add.v))
    /\ pc' = "generated"
    /\ UNCHANGED <<knotConf, fileExists, xfr, desired_remotes, current_remotes,
                   missing_remotes_ids, remotes_to_add, cm, calls, outcome,
                   docAtStart, log>>
    /\ UNCHANGED fnVars

\* lines 153-154
ReadConfigMap ==
    /\ pc = "generated"
    /\ calls' = Append(calls, Call("read_namespaced_config_map", TRUE))
    /\ cm' = Val(new_knot_conf.v)
    /\ pc' = "cm_fetched"
    /\ UNCHANGED <<knotConf, fileExists, xfr, desired_remotes, current_remotes,
                   missing_remotes_ids, remotes_to_add, new_knot_conf,
                   outcome, docAtStart, log>>
    /\ UNCHANGED fnVars

\* line 153 raises ApiException: lines 159-161
ReadConfigMapFails ==
    /\ pc = "generated"
    /\ calls' = Append(calls, Call("read_namespaced_config_map", FALSE))
    /\ EndRun("cm_error", calls', missing_remotes_ids)
    /\ UNCHANGED <<knotConf, fileExists, xfr, desired_remotes, current_remotes,
                   missing_remotes_ids, remotes_to_add, new_knot_conf, cm,
                   docAtStart>>
    /\ UNCHANGED fnVars

\* lines 157-158
ReplaceConfigMap ==
    /\ pc = "cm_fetched"
    /\ calls' = Append(calls, Call("replace_namespaced_config_map", TRUE))
    /\ knotConf' = cm.v
    /\ pc' = "cm_updated"
    /\ UNCHANGED <<fileExists, xfr, desired_remotes, current_remotes,
                   missing_remotes_ids, remotes_to_add, new_knot_conf, cm,
                   outcome, docAtStart, log>>
    /\ UNCHANGED fnVars

\* variant: the rejected replace has stored the document all the same
ReplaceConfigMapFailsStores ==
    /\ pc = "cm_fetched"
    /\ calls' = Append(calls, Call("replace_namespaced_config_map", FALSE))
    /\ knotConf' = cm.v
    /\ EndRun("cm_error", calls', missing_remotes_ids)
    /\ UNCHANGED <<fileExists, xfr, desired_remotes, current_remotes,
                   missing_remotes_ids, remotes_to_add, new_knot_conf, cm,
                   docAtStart>>
    /\ UNCHANGED fnVars

\* variant: the handler of line 159 does not return
ReplaceConfigMapFailsFallsThrough ==
    /\ pc = "cm_fetched"
    /\ calls' = Append(calls, Call("replace_namespaced_config_map", FALSE))
    /\ pc' = "cm_updated"
    /\ UNCHANGED <<knotConf, fileExists, xfr, desired_remotes, current_remotes,
                   missing_remotes_ids, remotes_to_add, new_knot_conf, cm,
                   outcome, docAtStart, log>>
    /\ UNCHANGED fnVars

\* line 157 raises ApiException: lines 159-161
ReplaceConfigMapFails ==
    /\ pc = "cm_fetched"
    /\ calls' = Append(calls, Call("replace_namespaced_config_map", FALSE))
    /\ EndRun("cm_error", calls', missing_remotes_ids)
    /\ UNCHANGED <<knotConf, fileExists, xfr, desired_remotes, current_remotes,
                   missing_remotes_ids, remotes_to_add, new_knot_conf, cm,
                   docAtStart>>
    /\ UNCHANGED fnVars

\* lines 164-178 and 183
PatchStatefulSet ==
    /\ pc = "cm_updated"
    /\ calls' = Append(calls, Call("patch_namespaced_stateful_set", TRUE))
    /\ EndRun("finished", calls', missing_remotes_ids)
    /\ UNCHANGED <<knotConf, fileExists, xfr, desired_remotes, current_remotes,
                   missing_remotes_ids, remotes_to_add, new_knot_conf, cm,
                   docAtStart>>
    /\ UNCHANGED fnVars

\* line 177 raises ApiException: lines 179-181
PatchStatefulSetFails ==
    /\ pc = "cm_updated"
    /\ calls' = Append(calls, Call("patch_namespaced_stateful_set", FALSE))
    /\ EndRun("sts_error", calls', missing_remotes_ids)
    /\ UNCHANGED <<knotConf, fileExists, xfr, desired_remotes, current_remotes,
                   missing_remotes_ids, remotes_to_add, new_knot_conf, cm,
                   docAtStart>>
    /\ UNCHANGED fnVars

\* the script is invoked again (line 185)
NextRun ==
    /\ pc = "done"
    /\ Len(log) < MaxRuns
    /\ pc' = "start"
    /\ xfr' = "pending"
    /\ desired_remotes' = Unset
    /\ current_remotes' = Unset
    /\ missing_remotes_ids' = Unset
    /\ remotes_to_add' = Unset
    /\ new_knot_conf' = Unset
    /\ cm' = Unset
    /\ calls' = <<>>
    /\ outcome' = "running"
    /\ docAtStart' = knotConf
    /\ UNCHANGED <<knotConf, fileExists, log>>
    /\ UNCHANGED fnVars

Next ==
    \/ LoadKubeConfig
    \/ LoadKubeConfigFails
    \/ GetDesired
    \/ GetDesiredFails
    \/ GetCurrent
    \/ Diff
    \/ Generate
    \/ ReadConfigMap
    \/ ReadConfigMapFails
    \/ ReplaceConfigMap
    \/ ReplaceConfigMapFails
    \/ PatchStatefulSet
    \/ PatchStatefulSetFails
    \/ NextRun

Spec == Init /\ [][Next]_vars

(***************************************************************************)
(* Direct calls of the Config Parser and of the Config Synthesizer         *)
(***************************************************************************)
MaxEntries == 2

FnDocs ==
    { MkDoc(s, a, ids, l, f) :
        s \in BOOLEAN, a \in BOOLEAN, l \in BOOLEAN, f \in BOOLEAN,
        ids \in DistinctSeqs(Ids, MaxEntries) }

FnRemotes ==
    { [i \in 1..Len(bs) |-> <<remote_id_of(bs[i]), fqdn_of(bs[i])>>] :
        bs \in DistinctSeqs(Bases, MaxMembers) }

FnInit ==
    /\ fnPc = "input"
    /\ fnDoc \in FnDocs
    /\ fnRemotes \in FnRemotes
    /\ fnCur = {}
    /\ fnOut = <<>>
    /\ fnCurrent = {} /\ fnAdd = <<>> /\ fnZone = <<>> /\ fnDesired = <<>>
    /\ knotConf = <<>>
    /\ fileExists = TRUE
    /\ pc = "off"
    /\ xfr = "pending"
    /\ desired_remotes = Unset
    /\ current_remotes = Unset
    /\ missing_remotes_ids = Unset
    /\ remotes_to_add = Unset
    /\ new_knot_conf = Unset
    /\ cm = Unset
    /\ calls = <<>>
    /\ outcome = "off"
    /\ docAtStart = <<>>
    /\ log = <<>>

FnParse ==
    /\ fnPc = "input"
    /\ fnCur' = get_current_remotes_from_config(fnDoc)
    /\ fnPc' = "parsed"
    /\ UNCHANGED <<fnDoc, fnRemotes, fnOut, fnCurrent, fnAdd, fnZone, fnDesired>>
    /\ UNCHANGED mainVars

FnGenerate ==
    /\ fnPc = "input"
    /\ fnOut' = generate_new_config(fnDoc, fnRemotes)
    /\ fnPc' = "generated"
    /\ UNCHANGED <<fnDoc, fnRemotes, fnCur, fnCurrent, fnAdd, fnZone, fnDesired>>
    /\ UNCHANGED mainVars

FnNext == FnParse \/ FnGenerate

SpecFn == FnInit /\ [][FnNext]_vars

(***************************************************************************)
(* Direct evaluation of the difference (lines 138-145)                     *)
(***************************************************************************)
MaxDesired == 3

MainInactive ==
    /\ knotConf = <<>>
    /\ fileExists = TRUE
    /\ pc = "off"
    /\ xfr = "pending"
    /\ desired_remotes = Unset
    /\ current_remotes = Unset
    /\ missing_remotes_ids = Unset
    /\ remotes_to_add = Unset
    /\ new_knot_conf = Unset
    /\ cm = Unset
    /\ calls = <<>>
    /\ outcome = "off"
    /\ docAtStart = <<>>
    /\ log = <<>>

DiffDesired ==
    { [i \in 1..Len(bs) |-> <<remote_id_of(bs[i]), fqdn_of(bs[i])>>] :
        bs \in DistinctSeqs(Bases, MaxDesired) }

DiffCurrent == SUBSET (Ids \cup {"z-remote"})

DiffInit ==
    /\ fnPc = "input"
    /\ fnRemotes \in DiffDesired
    /\ fnCurrent \in DiffCurrent
    /\ fnAdd = <<>>
    /\ fnDoc = <<>> /\ fnCur = {} /\ fnOut = <<>>
    /\ fnZone = <<>> /\ fnDesired = <<>>
    /\ MainInactive

FnDiff ==
    /\ fnPc = "input"
    /\ fnAdd' = Restrict(fnRemotes, MissingIds(fnRemotes, fnCurrent))
    /\ fnPc' = "diffed"
    /\ UNCHANGED <<fnDoc, fnRemotes, fnCur, fnOut, fnCurrent, fnZone, fnDesired>>
    /\ UNCHANGED mainVars

DiffNext == FnDiff

SpecDiff == DiffInit /\ [][DiffNext]_vars

(***************************************************************************)
(* Direct evaluation of the Catalog Reader (lines 27-43)                   *)
(***************************************************************************)
MaxNodes == 3

PtrNode(label, names) ==
    [name |-> label, rdatasets |-> <<[rdtype |-> "PTR", items |-> names]>>]

NodePool ==
    { Apex,
      Version,
      PtrNode("version", MemberZones(<<"c">>)),
      PtrNode("@", MemberZones(<<"c">>)),
      [name |-> "empty.zones", rdatasets |-> <<>>],
      Member("m1", <<"a">>),
      Member("m2", <<"b", "b">>),
      PtrNode("m3.zones", <<<<"b", "other", "dns", "">>>>),
      PtrNode("m4.zones", <<<<"catalog-primary", "internal", "dns", "">>>>) }

\* zone.nodes is a dict: the names of the nodes of a zone are distinct
FnZones ==
    { z \in DistinctSeqs(NodePool, MaxNodes) :
        \A i, j \in 1..Len(z) : i # j => z[i].name # z[j].name }

CatalogInit ==
    /\ fnPc = "input"
    /\ fnZone \in FnZones
    /\ fnDesired = <<>>
    /\ fnDoc = <<>> /\ fnRemotes = <<>> /\ fnCur = {} /\ fnOut = <<>>
    /\ fnCurrent = {} /\ fnAdd = <<>>
    /\ MainInactive

FnCatalog ==
    /\ fnPc = "input"
    /\ fnDesired' = get_desired_remotes_from_catalog(fnZone)
    /\ fnPc' = "derived"
    /\ UNCHANGED <<fnDoc, fnRemotes, fnCur, fnOut, fnCurrent, fnAdd, fnZone>>
    /\ UNCHANGED mainVars

CatalogNext == FnCatalog

SpecCatalog == CatalogInit /\ [][CatalogNext]_vars

(***************************************************************************)
(* Vocabulary of the properties                                            *)
(***************************************************************************)
ReadCM    == "read_namespaced_config_map"
ReplaceCM == "replace_namespaced_config_map"
PatchSTS  == "patch_namespaced_stateful_set"

\* the remote: section anchor, a line made of the key alone
IsAnchorLine(line) == line = <<"remote:", NL>> \/ line = <<"remote:">>

\* a top-level section header, a key in the first column
IsSectionHeader(line) == line # <<>> /\ line[1] \in KeyTokens

HasAnchor(doc) ==
    \E i \in 1..Len(readlines(doc)) : IsAnchorLine(readlines(doc)[i])

\* the lines of the remote section: after the first anchor line, up to the
\* next top-level section header or the end of the document
SectionLines(doc) ==
    LET lines == readlines(doc)
        a == CHOOSE i \in 1..Len(lines) :
                 /\ IsAnchorLine(lines[i])
                 /\ \A j \in 1..(i-1) : ~IsAnchorLine(lines[j])
        e == IF \E j \in (a+1)..Len(lines) : IsSectionHeader(lines[j])
             THEN CHOOSE j \in (a+1)..Len(lines) :
                      /\ IsSectionHeader(lines[j])
                      /\ \A k \in (a+1)..(j-1) : ~IsSectionHeader(lines[k])
             ELSE Len(lines) + 1
    IN  SubSeq(lines, a+1, e-1)

\* the ids a line lists as a "-    id:  <id>" entry
EntryIds(line) ==
    { line[p+4] : p \in { q \in 1..Len(line) : /\ q + 4 <= Len(line)
                                               /\ line[q] = "-"
                                               /\ line[q+1] = "    "
                                               /\ line[q+2] = "id:"
                                               /\ line[q+3] = "  " } }

\* the ids listed as id entries of the remote section
ListedIds(doc) ==
    LET sec == SectionLines(doc)
    IN  UNION { EntryIds(sec[i]) : i \in 1..Len(sec) }

\* the first line of the block generate_new_config writes for an id
IsBlockLine(line, id) == line = <<"      ", "-", " ", "id:", " ", id, NL>>

\* number of lines of ls that open a generated block of id
BlockCount(ls, id) == Cardinality({i \in 1..Len(ls) : IsBlockLine(ls[i], id)})

\* number of lines of ls that open a generated block of any id
AllBlockCount(ls) ==
    Cardinality({i \in 1..Len(ls) : \E id \in Ids : IsBlockLine(ls[i], id)})

\* the lines that hold the list directive of key
ListLines(doc, key) ==
    LET lines == readlines(doc)
    IN  { i \in 1..Len(lines) :
            \E p \in 1..(Len(lines[i]) - 2) :
               /\ lines[i][p] = key
               /\ lines[i][p+1] \in Blanks
               /\ lines[i][p+2] = "[" }

HasList(doc, key) == ListLines(doc, key) # {}

\* every list directive of key holds id exactly once
OnceInEachList(doc, key, id) ==
    \A i \in ListLines(doc, key) : Count(readlines(doc)[i], id) = 1

Adjacent == {r \in 1..Len(log) : r + 1 <= Len(log)}

NoFailure(rec) == rec.outcome \in {"finished", "up_to_date"}

StorageFailed(cs) ==
    \E i \in 1..Len(cs) : cs[i].op \in {ReadCM, ReplaceCM} /\ ~cs[i].ok

(***************************************************************************)
(* Properties                                                              *)
(***************************************************************************)
\* C1: when two runs in a row see the same catalog and no collaborator
\* fails in either, the second run finds no missing remote and makes no
\* ConfigMap replace and no StatefulSet patch.
C1_SecondRunWritesNothing ==
    \A r \in Adjacent :
        (/\ NoFailure(log[r]) /\ NoFailure(log[r+1])
         /\ log[r].desired = log[r+1].desired)
        => /\ log[r+1].missing = Val({})
           /\ log[r+1].calls = <<>>

\* C2: for a base document with the remote: section anchor and both list
\* directives and a non-empty mapping of ids the document does not hold
\* yet, the synthesized document has, for each id of the mapping, exactly
\* one new block in the remote section and the id exactly once in each of
\* the two lists, and no more new blocks than ids.
C2_InsertionComplete ==
    (/\ fnPc = "generated"
     /\ fnRemotes # <<>>
     /\ HasAnchor(fnDoc)
     /\ HasList(fnDoc, "remote:") /\ HasList(fnDoc, "master:")
     /\ \A id \in KeySet(fnRemotes) : ~Contains(fnDoc, id))
    => /\ \A id \in KeySet(fnRemotes) :
             /\ BlockCount(SectionLines(fnOut), id) = 1
             /\ OnceInEachList(fnOut, "remote:", id)
             /\ OnceInEachList(fnOut, "master:", id)
       /\ AllBlockCount(readlines(fnOut)) = Len(fnRemotes)

\* C3: after a run whose ConfigMap replace succeeded and whose StatefulSet
\* patch failed, the written document stays, and the next run with the same
\* catalog finds no missing remote and issues no restart.
C3_RestartNeverRetried ==
    /\ (pc = "done" /\ outcome = "sts_error") => knotConf = new_knot_conf.v
    /\ \A r \in Adjacent :
          (/\ log[r].outcome = "sts_error"
           /\ log[r+1].desired = log[r].desired
           /\ IsVal(log[r+1].missing))
          => /\ log[r+1].missing = Val({})
             /\ NumCalls(log[r+1].calls, PatchSTS) = 0

\* C4: when reading or replacing the ConfigMap fails in a run, that run
\* issues no restart and the stored document keeps its content, and a next
\* run with the same catalog computes the same missing set.
C4_StorageFailureSafeRetry ==
    /\ StorageFailed(calls) => (~Called(PatchSTS) /\ knotConf = docAtStart)
    /\ \A r \in 1..Len(log) :
          StorageFailed(log[r].calls) => NumCalls(log[r].calls, PatchSTS) = 0
    /\ \A r \in Adjacent :
          (/\ StorageFailed(log[r].calls)
           /\ log[r+1].desired = log[r].desired
           /\ IsVal(log[r+1].missing))
          => log[r+1].missing = log[r].missing

C4_Witness ==
    /\ Len(log) >= 2
    /\ StorageFailed(log[1].calls)
    /\ log[1].calls[Len(log[1].calls)].op = ReplaceCM
    /\ log[2].desired = log[1].desired
    /\ IsVal(log[2].missing)

\* C5: when the zone transfer fails the run ends at once with exit(0): no
\* cluster API call is made, the configuration document is not parsed and
\* nothing is synthesized or stored.
C5_TransferFailureIsBenign ==
    xfr = "failed"
    => /\ pc = "done" /\ outcome = "exit_0"
       /\ calls = <<>>
       /\ current_remotes = Unset
       /\ new_knot_conf = Unset
       /\ knotConf = docAtStart

C5_Witness == xfr = "failed" /\ pc = "done" /\ Len(log) = 2

\* C6: when the file at KNOT_CONFIG_PATH does not exist, whatever the
\* desired set is, no document is synthesized, no cluster API call is made
\* and the run that obtained the desired set returns at line 136.
C6_MissingDocumentAborts ==
    ~fileExists
    => /\ new_knot_conf = Unset
       /\ calls = <<>>
       /\ knotConf = docAtStart
       /\ (pc = "done" /\ IsVal(desired_remotes)) => outcome = "no_state"

C6_Witness ==
    /\ ~fileExists /\ pc = "done" /\ outcome = "no_state"
    /\ IsVal(desired_remotes) /\ Len(desired_remotes.v) = 2
    /\ current_remotes = None

\* C7: once desired and current state are known and every desired id is in
\* the current set, the run makes no cluster API call, leaves the stored
\* document unchanged and ends as "up to date".
C7_NoOpOnEmptyDiff ==
    (/\ IsVal(desired_remotes) /\ IsVal(current_remotes)
     /\ KeySet(desired_remotes.v) \subseteq current_remotes.v)
    => /\ calls = <<>>
       /\ new_knot_conf = Unset
       /\ knotConf = docAtStart
       /\ pc \in {"have_current", "done"}
       /\ pc = "done" => outcome = "up_to_date"

C7_Witness ==
    /\ pc = "done" /\ outcome = "up_to_date"
    /\ IsVal(desired_remotes) /\ IsVal(current_remotes)
    /\ KeySet(desired_remotes.v) \subseteq current_remotes.v
    /\ missing_remotes_ids = Val({})

\* C8 as stated: a finished run has called the ConfigMap replace if and
\* only if its missing set was computed and is not empty.
C8_WriteIffMissing ==
    pc = "done"
    => (Called(ReplaceCM) <=> (IsVal(missing_remotes_ids)
                               /\ missing_remotes_ids.v # {}))

\* C8 amended: the ConfigMap replace is called only when the missing set is
\* not empty, and it is called in every finished run whose missing set is
\* not empty unless the ConfigMap read before it failed; the StatefulSet
\* patch is called only after a successful replace of the same run; a run
\* makes at most one replace and at most one patch; and a run with a
\* non-empty missing set in which no call fails makes the calls read,
\* replace, patch, in this order.
C8_WriteThenRestart ==
    /\ Called(ReplaceCM)
         => (IsVal(missing_remotes_ids) /\ missing_remotes_ids.v # {})
    /\ (/\ pc = "done"
        /\ IsVal(missing_remotes_ids) /\ missing_remotes_ids.v # {}
        /\ calls # <<Call(ReadCM, FALSE)>>)
         => Called(ReplaceCM)
    /\ \A i \in 1..Len(calls) :
          calls[i].op = PatchSTS
            => \E j \in 1..(i-1) : calls[j] = Call(ReplaceCM, TRUE)
    /\ NumCalls(calls, ReplaceCM) <= 1
    /\ NumCalls(calls, PatchSTS) <= 1
    /\ (/\ pc = "done"
        /\ IsVal(missing_remotes_ids) /\ missing_remotes_ids.v # {}
        /\ \A i \in 1..Len(calls) : calls[i].ok)
         => /\ calls = <<Call(ReadCM, TRUE), Call(ReplaceCM, TRUE),
                         Call(PatchSTS, TRUE)>>
            /\ outcome = "finished"

C8_Witness ==
    /\ pc = "done" /\ outcome = "finished"
    /\ calls = <<Call(ReadCM, TRUE), Call(ReplaceCM, TRUE), Call(PatchSTS, TRUE)>>
    /\ knotConf # docAtStart

\* C9: generate_new_config with an empty mapping returns the base document.
C9_EmptyMappingIsIdentity ==
    (fnPc = "generated" /\ fnRemotes = <<>>) => fnOut = fnDoc

\* C10: for a document with a remote: section, the parser returns exactly
\* the ids listed as id entries between the anchor and the next top-level
\* section header or the end of the document.
C10_ParserComplete ==
    (fnPc = "parsed" /\ HasAnchor(fnDoc)) => fnCur = ListedIds(fnDoc)

\* C11: for a base document without a remote: section anchor that has both
\* list directives, and a non-empty mapping, the synthesized document has
\* the ids of the mapping in both lists and no generated block anywhere.
C11_NoAnchorNoBlocks ==
    (/\ fnPc = "generated"
     /\ fnRemotes # <<>>
     /\ ~HasAnchor(fnDoc)
     /\ HasList(fnDoc, "remote:") /\ HasList(fnDoc, "master:")
     /\ \A id \in KeySet(fnRemotes) : ~Contains(fnDoc, id))
    => /\ \A id \in KeySet(fnRemotes) :
             /\ OnceInEachList(fnOut, "remote:", id)
             /\ OnceInEachList(fnOut, "master:", id)
       /\ AllBlockCount(readlines(fnOut)) = 0

\* C12: the mapping handed to the synthesizer has as keys exactly the
\* desired ids that are not in the current set, each once and with the
\* address it has in the desired mapping; no id of the current set is a
\* key of it.
C12_DiffCorrect ==
    fnPc = "diffed"
    => /\ KeySet(fnAdd) = {id \in KeySet(fnRemotes) : id \notin fnCurrent}
       /\ \A i \in 1..Len(fnAdd) : \E j \in 1..Len(fnRemotes) : fnAdd[i] = fnRemotes[j]
       /\ \A i, j \in 1..Len(fnAdd) : i # j => fnAdd[i][1] # fnAdd[j][1]
       /\ KeySet(fnAdd) \cap fnCurrent = {}

C12_Witness ==
    /\ fnPc = "diffed"
    /\ keys(fnRemotes) = <<"a-remote", "b-remote", "c-remote">>
    /\ fnCurrent = {"b-remote", "z-remote"}
    /\ fnAdd = <<<<"a-remote", "site-a.dns.internal">>,
                 <<"c-remote", "site-c.dns.internal">>>>

ListBody(doc, key) ==
    LET lines == readlines(doc)
        l == lines[CHOOSE i \in ListLines(doc, key) :
                       \A j \in ListLines(doc, key) : i <= j]
        o == CHOOSE p \in 1..Len(l) : l[p] = "[" /\ \A q \in 1..(p-1) : l[q] # "["
        c == CHOOSE p \in o..Len(l) : l[p] = "]" /\ \A q \in o..(p-1) : l[q] # "]"
    IN  SubSeq(l, o+1, c-1)

\* the entries of a list text, in order
RECURSIVE ListItems(_)
ListItems(body) ==
    IF body = <<>> THEN <<>>
    ELSE IF Head(body) = "," \/ Head(body) \in Blanks THEN ListItems(Tail(body))
    ELSE <<Head(body)>> \o ListItems(Tail(body))

IsPrefix(s, t) == Len(s) <= Len(t) /\ SubSeq(t, 1, Len(s)) = s

\* C14: in the synthesized document each of the two lists keeps its text as
\* a prefix, its entries are the previous entries followed by the new ids
\* in the order of the mapping (the same in both lists), and the list is a
\* well-formed comma-separated list, also when it was empty before.
C14_ListsExtendedInOrder ==
    (/\ fnPc = "generated"
     /\ fnRemotes # <<>>
     /\ HasList(fnDoc, "remote:") /\ HasList(fnDoc, "master:"))
    => \A key \in {"remote:", "master:"} :
          LET old == ListBody(fnDoc, key)
              new == ListBody(fnOut, key)
          IN  /\ IsPrefix(old, new)
              /\ ListItems(new) = ListItems(old) \o keys(fnRemotes)
              /\ new = JoinIds(ListItems(new))

\* C15: for a base document with the remote: section anchor, the lines of
\* the synthesized document are the lines of the base document with one
\* block per id of the mapping inserted right after the first anchor line;
\* only the lines of the remote and master list directives may differ from
\* the base document, and nothing else is added, removed or moved.
C15_NothingElseDisturbed ==
    (/\ fnPc = "generated"
     /\ fnRemotes # <<>>
     /\ HasAnchor(fnDoc))
    => LET lb == readlines(fnDoc)
           lo == readlines(fnOut)
           n  == 4 * Len(fnRemotes)
           a  == CHOOSE i \in 1..Len(lb) :
                     /\ IsAnchorLine(lb[i])
                     /\ \A j \in 1..(i-1) : ~IsAnchorLine(lb[j])
           L  == ListLines(fnDoc, "remote:") \cup ListLines(fnDoc, "master:")
       IN  /\ Len(lo) = Len(lb) + n
           /\ \A i \in 1..Len(lb) :
                 i \notin L => lb[i] = lo[IF i <= a THEN i ELSE i + n]
           /\ \A id \in KeySet(fnRemotes) :
                 BlockCount(SubSeq(lo, a+1, a+n), id) = 1

\* C16: when the stored document has no remote: section anchor, the parser
\* returns the empty set and not None, and after a run that has written
\* the document the next run with the same catalog finds no missing remote.
\* (No run adds or removes an anchor line, so a stored document without an
\* anchor means every run so far started from one.)
C16_BootstrapConverges ==
    ~HasAnchor(knotConf)
    => /\ (fileExists /\ current_remotes # Unset) => current_remotes = Val({})
       /\ \A r \in Adjacent :
             (/\ \E i \in 1..Len(log[r].calls) :
                    log[r].calls[i] = Call(ReplaceCM, TRUE)
              /\ log[r+1].desired = log[r].desired
              /\ IsVal(log[r+1].missing))
             => log[r+1].missing = Val({})

\* number of lines of the remote section that define id: entries of the
\* form the parser reads and blocks of the form the synthesizer writes
DefinitionCount(doc, id) ==
    LET sec == SectionLines(doc)
    IN  Cardinality({i \in 1..Len(sec) :
                        id \in EntryIds(sec[i]) \/ IsBlockLine(sec[i], id)})

NoDuplicates(doc) ==
    \A id \in Ids :
       /\ HasAnchor(doc) => DefinitionCount(doc, id) <= 1
       /\ \A key \in {"remote:", "master:"} :
             \A i \in ListLines(doc, key) : Count(readlines(doc)[i], id) <= 1

\* C17: the stored document never holds a remote id twice in the remote
\* section or twice in a list directive, whatever runs have happened.
C17_NoDuplicatesAccumulate == NoDuplicates(knotConf)

====
